---------------------------- MODULE Spec2Model ----------------------------
(***************************************************************************)
(* jobticker.Ticker (mutex-guarded variant): Start / Stop / IsRunning      *)
(* called by concurrent goroutines, the run goroutine(s) they spawn, and   *)
(* executeHandler with its recover boundary, logger and metrics sink.      *)
(*                                                                         *)
(* Time is abstracted: a tick of time.Ticker and the firing of time.After  *)
(* may happen at any moment.  sync.Mutex makes the body of a method        *)
(* atomic with respect to the other methods, but not with respect to the   *)
(* run goroutine, which writes t.started and reads t.quit without the      *)
(* mutex; its steps therefore interleave freely with the methods.          *)
(*                                                                         *)
(* ttlcounter.Counter: the item map, the expiration queue (a min-heap by   *)
(* container/heap over expirationQueue), the clock in Unix seconds, the    *)
(* methods and the background vacuumLoop.  The two components share no     *)
(* state: each specification moves one and leaves the other as built.      *)
(***************************************************************************)
EXTENDS Integers, Sequences, FiniteSets, TLC

\* ------------------------------------------------------------- bounds
NumCallers == 2   \* goroutines calling the ticker's methods
MaxOps     == 5   \* method calls issued in total in one behaviour
MaxTicks   == 2   \* ticks delivered by time.Ticker in one behaviour
MaxTime    == 2   \* the clock (Unix seconds) runs from 0 to MaxTime
MaxCOps    == 4   \* Counter method calls made in one behaviour

\* ---------------------------------------------------------- constants
DefaultTTL == 1   \* seconds

Callers == 1..NumCallers

\* Diagnostics of the logger, one counter per message.
Msgs == {"already been started", "is not running", "close already been called",
         "quit...", "forced shutdown due to timeout", "handler error",
         "handler panic"}

\* What one invocation of the user's handler does: return nil, return an
\* error, panic, or never return.
Outcomes == {"nil", "err", "panic", "block"}

VARIABLES
    started,      \* t.started
    quit,         \* t.quit: [ch |-> 0] is nil, else the ch-th channel made, buf values buffered
    wg,           \* t.wg's counter
    mu,           \* t.mu: 0 when free, else the caller holding it
    stopTimeout,  \* t.stopTimeout: 0 (unset) or 1 (some positive duration)
    metrics,      \* t.metrics != nil
    pc,           \* where each caller is
    done,         \* Stop's local done channel of each caller: closed or not
    lpc,          \* where each run goroutine spawned so far is
    hres,         \* what the handler invocation of each run goroutine does
    ncalls,       \* method calls issued so far
    script,       \* position of each caller in the Start-then-Stop test body
    ticks,        \* ticks delivered so far: handler invocations begun
    fin,          \* handler invocations ended, by outcome
    log,          \* messages received by the logger, by message
    observed,     \* calls of metrics.Observe
    quiet,        \* a Stop that waited without timeout has returned, and no Start took effect since
    \* ---- ttlcounter.Counter
    items,        \* c.items: key -> [value, access]
    ttl,          \* c.ttl, seconds
    expQueue,     \* c.expQueue: the heap's array of [key, expireAt]
    now,          \* time.Now().Unix()
    stopClosed,   \* c.stop is closed
    once,         \* c.stopped (sync.Once) has run its function
    closes,       \* executions of close(c.stop)
    vl,           \* vacuumLoop: "select", "vacuum" (a tick received, Vacuum not yet run) or "exited"
    vt,           \* the tick time vacuumLoop received
    cops,         \* Counter method calls made so far
    ret,          \* the last method call: [op, key, val, live], live = key present and not expired at the call
    run,          \* per key: length of the current run of Inc calls begun on the absent key, 0 when broken
    cmu,          \* c.mu: 0 when free, else the caller holding it (followed where a method is split into steps)
    cpc,          \* where each caller of TestCounterConcurrentAccess is
    tmp           \* Inc's locals of each caller: the time read and the value read

tickerAll == <<started, quit, wg, mu, stopTimeout, metrics, pc, done, lpc, hres,
               ncalls, script, ticks, fin, log, observed, quiet>>

callerVars == <<cmu, cpc, tmp>>

counterVars == <<items, ttl, expQueue, now, stopClosed, once, closes, vl, vt, cops, ret, run,
                 callerVars>>

vars == <<tickerAll, counterVars>>

Keys == {"a", "b"}

NoRet == [op |-> "none", key |-> "", val |-> 0, live |-> FALSE, flag |-> FALSE]

\* The Counter as New(DefaultTTL) leaves it, at time 0.
CounterIdle ==
    /\ items = << >>
    /\ ttl = DefaultTTL
    /\ expQueue = << >>
    /\ now = 0
    /\ stopClosed = FALSE
    /\ once = FALSE
    /\ closes = 0
    /\ vl = "select"
    /\ vt = 0
    /\ cops = 0
    /\ ret = NoRet
    /\ run = [k \in Keys |-> 0]
    /\ cmu = 0
    /\ cpc = [c \in Callers |-> "idle"]
    /\ tmp = [c \in Callers |-> [now |-> 0, value |-> 0]]

tickerVars == <<started, quit, wg>>
config     == <<stopTimeout, metrics>>
loopVars   == <<lpc, hres, ticks, fin, observed>>

Loops == 1..Len(lpc)

\* A run goroutine that has not returned from its deferred functions.
GoroutineAlive(l) == lpc[l] # "dead"
\* A run goroutine inside its for-select loop (it has not yet cleared t.started).
LoopActive(l) == lpc[l] \in {"select", "handler", "quitting"}

Logged(m) == log' = [log EXCEPT ![m] = @ + 1]

\* New(name, handler, interval, l, options...): a stopped ticker.
Init ==
    /\ started = FALSE
    /\ quit = [ch |-> 0, buf |-> 0]
    /\ wg = 0
    /\ mu = 0
    /\ stopTimeout \in {0, 1}
    /\ metrics \in BOOLEAN
    /\ pc = [c \in Callers |-> "idle"]
    /\ done = [c \in Callers |-> FALSE]
    /\ lpc = << >>
    /\ hres = << >>
    /\ ncalls = 0
    /\ script = [c \in Callers |-> 0]
    /\ ticks = 0
    /\ fin = [o \in Outcomes \ {"block"} |-> 0]
    /\ log = [m \in Msgs |-> 0]
    /\ observed = 0
    /\ quiet = FALSE
    /\ CounterIdle

\* A caller calls a method and arrives at t.mu.Lock().
Call(c, op) ==
    /\ pc[c] = "idle"
    /\ ncalls < MaxOps
    /\ ncalls' = ncalls + 1
    /\ pc' = [pc EXCEPT ![c] = op]
    /\ UNCHANGED <<tickerVars, mu, config, done, loopVars, script, log, quiet>>

\* Start without the `if t.started` check.
StartNoCheck(c) ==
    /\ pc[c] = "Start"
    /\ mu = 0
    /\ pc' = [pc EXCEPT ![c] = "idle"]
    /\ quit' = [ch |-> quit.ch + 1, buf |-> 0]
    /\ started' = TRUE
    /\ wg' = wg + 1
    /\ lpc' = Append(lpc, "select")
    /\ hres' = Append(hres, "nil")
    /\ quiet' = FALSE
    /\ UNCHANGED <<mu, config, done, ncalls, script, ticks, fin, log, observed>>

\* Start making the quit channel before the `if t.started` check.
StartMakesQuitFirst(c) ==
    /\ pc[c] = "Start"
    /\ mu = 0
    /\ pc' = [pc EXCEPT ![c] = "idle"]
    /\ quit' = [ch |-> quit.ch + 1, buf |-> 0]
    /\ IF started
         THEN /\ Logged("already been started")
              /\ UNCHANGED <<started, wg, lpc, hres, quiet>>
         ELSE /\ started' = TRUE
              /\ wg' = wg + 1
              /\ lpc' = Append(lpc, "select")
              /\ hres' = Append(hres, "nil")
              /\ quiet' = FALSE
              /\ UNCHANGED log
    /\ UNCHANGED <<mu, config, done, ncalls, script, ticks, fin, observed>>

\* Ticker.Start between Lock and the deferred Unlock.
Start(c) ==
    /\ pc[c] = "Start"
    /\ mu = 0
    /\ pc' = [pc EXCEPT ![c] = "idle"]
    /\ IF started
         THEN /\ Logged("already been started")
              /\ UNCHANGED <<tickerVars, lpc, hres, quiet>>
         ELSE /\ quit' = [ch |-> quit.ch + 1, buf |-> 0]
              /\ started' = TRUE
              /\ wg' = wg + 1
              /\ lpc' = Append(lpc, "select")
              /\ hres' = Append(hres, "nil")
              /\ quiet' = FALSE
              /\ UNCHANGED log
    /\ UNCHANGED <<mu, config, done, ncalls, script, ticks, fin, observed>>

\* Stop returning right after the send, without t.wg.Wait().
StopNoWait(c) ==
    /\ pc[c] = "Stop"
    /\ mu = 0
    /\ pc' = [pc EXCEPT ![c] = "idle"]
    /\ IF quit.ch = 0 \/ ~started
         THEN Logged("is not running") /\ UNCHANGED quit
         ELSE IF quit.buf = 0
           THEN quit' = [quit EXCEPT !.buf = 1] /\ UNCHANGED log
           ELSE Logged("close already been called") /\ UNCHANGED quit
    /\ UNCHANGED <<started, wg, mu, done, config, loopVars, ncalls, script, quiet>>

\* Stop testing only `t.quit == nil`, not `!t.started`.
StopNoStartedCheck(c) ==
    /\ pc[c] = "Stop"
    /\ mu = 0
    /\ IF quit.ch = 0
         THEN /\ Logged("is not running")
              /\ pc' = [pc EXCEPT ![c] = "idle"]
              /\ UNCHANGED <<quit, mu, done>>
         ELSE IF quit.buf = 0
           THEN /\ quit' = [quit EXCEPT !.buf = 1]
                /\ mu' = c
                /\ pc' = [pc EXCEPT ![c] = IF stopTimeout = 0 THEN "wgWait" ELSE "select"]
                /\ done' = [done EXCEPT ![c] = FALSE]
                /\ UNCHANGED log
           ELSE /\ Logged("close already been called")
                /\ pc' = [pc EXCEPT ![c] = "idle"]
                /\ UNCHANGED <<quit, mu, done>>
    /\ UNCHANGED <<started, wg, config, loopVars, ncalls, script, quiet>>

\* Stop waiting for the loop also when the quit channel is full.
StopFullWaits(c) ==
    /\ pc[c] = "Stop"
    /\ mu = 0
    /\ IF quit.ch = 0 \/ ~started
         THEN /\ Logged("is not running")
              /\ pc' = [pc EXCEPT ![c] = "idle"]
              /\ UNCHANGED <<quit, mu, done>>
         ELSE /\ quit' = [quit EXCEPT !.buf = 1]
              /\ mu' = c
              /\ pc' = [pc EXCEPT ![c] = IF stopTimeout = 0 THEN "wgWait" ELSE "select"]
              /\ done' = [done EXCEPT ![c] = FALSE]
              /\ UNCHANGED log
    /\ UNCHANGED <<started, wg, config, loopVars, ncalls, script, quiet>>

\* Ticker.Stop from Lock to its first blocking point or its return.
Stop(c) ==
    /\ pc[c] = "Stop"
    /\ mu = 0
    /\ IF quit.ch = 0 \/ ~started
         THEN /\ Logged("is not running")
              /\ pc' = [pc EXCEPT ![c] = "idle"]
              /\ UNCHANGED <<quit, mu, done>>
         ELSE IF quit.buf = 0
           THEN /\ quit' = [quit EXCEPT !.buf = 1]
                /\ mu' = c
                /\ pc' = [pc EXCEPT ![c] = IF stopTimeout = 0 THEN "wgWait" ELSE "select"]
                /\ done' = [done EXCEPT ![c] = FALSE]
                /\ UNCHANGED log
           ELSE /\ Logged("close already been called")
                /\ pc' = [pc EXCEPT ![c] = "idle"]
                /\ UNCHANGED <<quit, mu, done>>
    /\ UNCHANGED <<started, wg, config, loopVars, ncalls, script, quiet>>

\* Stop returning without t.wg.Wait() having waited for the counter to reach zero.
StopWgWaitEarly(c) ==
    /\ pc[c] = "wgWait"
    /\ pc' = [pc EXCEPT ![c] = "idle"]
    /\ mu' = 0
    /\ quiet' = TRUE
    /\ UNCHANGED <<tickerVars, config, done, loopVars, ncalls, script, log>>

\* Stop without stopTimeout: t.wg.Wait() returns, Stop returns and unlocks.
StopWgWait(c) ==
    /\ pc[c] = "wgWait"
    /\ wg = 0
    /\ pc' = [pc EXCEPT ![c] = "idle"]
    /\ mu' = 0
    /\ quiet' = TRUE
    /\ UNCHANGED <<tickerVars, config, done, loopVars, ncalls, script, log>>

\* Stop with stopTimeout: the helper goroutine's t.wg.Wait() returns and it closes done.
\* (The helper of a Stop that timed out goes on waiting and then closes a
\* channel nobody reads any more; it touches nothing of the ticker and is
\* not followed further.)
StopHelper(c) ==
    /\ pc[c] = "select"
    /\ ~done[c]
    /\ wg = 0
    /\ done' = [done EXCEPT ![c] = TRUE]
    /\ UNCHANGED <<tickerVars, mu, config, pc, loopVars, ncalls, script, log, quiet>>

\* Stop with stopTimeout: case <-done.
StopSelectDone(c) ==
    /\ pc[c] = "select"
    /\ done[c]
    /\ pc' = [pc EXCEPT ![c] = "idle"]
    /\ mu' = 0
    /\ done' = [done EXCEPT ![c] = FALSE]
    /\ UNCHANGED <<tickerVars, config, loopVars, ncalls, script, log, quiet>>

\* The timeout case going on to wait for the loop after logging.
StopSelectTimeoutWaits(c) ==
    /\ pc[c] = "select"
    /\ Logged("forced shutdown due to timeout")
    /\ pc' = [pc EXCEPT ![c] = "wgWait"]
    /\ UNCHANGED <<tickerVars, mu, done, config, loopVars, ncalls, script, quiet>>

\* The timeout case marking the ticker stopped although the loop is still there.
StopSelectTimeoutClearsStarted(c) ==
    /\ pc[c] = "select"
    /\ Logged("forced shutdown due to timeout")
    /\ pc' = [pc EXCEPT ![c] = "idle"]
    /\ mu' = 0
    /\ done' = [done EXCEPT ![c] = FALSE]
    /\ started' = FALSE
    /\ UNCHANGED <<quit, wg, config, loopVars, ncalls, script, quiet>>

\* Stop with stopTimeout: case <-time.After(t.stopTimeout).
StopSelectTimeout(c) ==
    /\ pc[c] = "select"
    /\ Logged("forced shutdown due to timeout")
    /\ pc' = [pc EXCEPT ![c] = "idle"]
    /\ mu' = 0
    /\ done' = [done EXCEPT ![c] = FALSE]
    /\ UNCHANGED <<tickerVars, config, loopVars, ncalls, script, quiet>>

\* Ticker.IsRunning.
IsRunning(c) ==
    /\ pc[c] = "IsRunning"
    /\ mu = 0
    /\ pc' = [pc EXCEPT ![c] = "idle"]
    /\ UNCHANGED <<tickerVars, mu, config, done, loopVars, ncalls, script, log, quiet>>

\* run: case now := <-ticker.C, up to the call of t.handler() in executeHandler.
runTick(l, outs) ==
    /\ lpc[l] = "select"
    /\ ticks < MaxTicks
    /\ ticks' = ticks + 1
    /\ lpc' = [lpc EXCEPT ![l] = "handler"]
    /\ \E o \in outs : hres' = [hres EXCEPT ![l] = o]
    /\ UNCHANGED <<tickerVars, mu, config, pc, done, ncalls, script, fin, log, observed, quiet>>

\* executeHandler without the deferred recover: a panic of the handler ends the goroutine.
executeHandlerNoRecover(l) ==
    /\ lpc[l] = "handler"
    /\ hres[l] # "block"
    /\ lpc' = [lpc EXCEPT ![l] = IF hres[l] = "panic" THEN "dead" ELSE "select"]
    /\ fin' = [fin EXCEPT ![hres[l]] = @ + 1]
    /\ CASE hres[l] = "panic" -> UNCHANGED <<log, observed>>
         [] hres[l] = "err"   -> /\ Logged("handler error")
                                 /\ observed' = IF metrics THEN observed + 1 ELSE observed
         [] OTHER             -> /\ UNCHANGED log
                                 /\ observed' = IF metrics THEN observed + 1 ELSE observed
    /\ UNCHANGED <<tickerVars, mu, config, pc, done, hres, ncalls, script, ticks, quiet>>

\* executeHandler from the return (or panic) of t.handler() to its own return.
executeHandler(l) ==
    /\ lpc[l] = "handler"
    /\ hres[l] # "block"
    /\ lpc' = [lpc EXCEPT ![l] = "select"]
    /\ fin' = [fin EXCEPT ![hres[l]] = @ + 1]
    /\ CASE hres[l] = "panic" -> Logged("handler panic") /\ UNCHANGED observed
         [] hres[l] = "err"   -> /\ Logged("handler error")
                                 /\ observed' = IF metrics THEN observed + 1 ELSE observed
         [] OTHER             -> /\ UNCHANGED log
                                 /\ observed' = IF metrics THEN observed + 1 ELSE observed
    /\ UNCHANGED <<tickerVars, mu, config, pc, done, hres, ncalls, script, ticks, quiet>>

\* The quit case leaving only the select (a bare break), not the loop.
runQuitKeepsLooping(l) ==
    /\ lpc[l] = "select"
    /\ quit.ch # 0
    /\ quit.buf > 0
    /\ quit' = [quit EXCEPT !.buf = 0]
    /\ Logged("quit...")
    /\ UNCHANGED <<started, wg, mu, config, pc, done, lpc, hres, ncalls, script, ticks, fin, observed, quiet>>

\* run: case <-t.quit.
runQuit(l) ==
    /\ lpc[l] = "select"
    /\ quit.ch # 0
    /\ quit.buf > 0
    /\ quit' = [quit EXCEPT !.buf = 0]
    /\ Logged("quit...")
    /\ lpc' = [lpc EXCEPT ![l] = "quitting"]
    /\ UNCHANGED <<started, wg, mu, config, pc, done, hres, ncalls, script, ticks, fin, observed, quiet>>

\* run's deferred function calling only t.wg.Done().
runDeferKeepsStarted(l) ==
    /\ lpc[l] = "quitting"
    /\ lpc' = [lpc EXCEPT ![l] = "exiting"]
    /\ UNCHANGED <<started, quit, wg, mu, config, pc, done, hres, ncalls, script, ticks, fin, log, observed, quiet>>

\* run's deferred function: t.started = false.
runDeferStarted(l) ==
    /\ lpc[l] = "quitting"
    /\ started' = FALSE
    /\ lpc' = [lpc EXCEPT ![l] = "exiting"]
    /\ UNCHANGED <<quit, wg, mu, config, pc, done, hres, ncalls, script, ticks, fin, log, observed, quiet>>

\* run's deferred function: t.wg.Done().
runDeferDone(l) ==
    /\ lpc[l] = "exiting"
    /\ wg' = wg - 1
    /\ lpc' = [lpc EXCEPT ![l] = "dead"]
    /\ UNCHANGED <<started, quit, mu, config, pc, done, hres, ncalls, script, ticks, fin, log, observed, quiet>>

Next ==
    \/ \E c \in Callers : \E op \in {"Start", "Stop", "IsRunning"} : Call(c, op) /\ UNCHANGED counterVars
    \/ \E c \in Callers : Start(c) /\ UNCHANGED counterVars
    \/ \E c \in Callers : Stop(c) /\ UNCHANGED counterVars
    \/ \E c \in Callers : StopWgWait(c) /\ UNCHANGED counterVars
    \/ \E c \in Callers : StopHelper(c) /\ UNCHANGED counterVars
    \/ \E c \in Callers : StopSelectDone(c) /\ UNCHANGED counterVars
    \/ \E c \in Callers : StopSelectTimeout(c) /\ UNCHANGED counterVars
    \/ \E c \in Callers : IsRunning(c) /\ UNCHANGED counterVars
    \/ \E l \in Loops : runTick(l, Outcomes) /\ UNCHANGED counterVars
    \/ \E l \in Loops : executeHandler(l) /\ UNCHANGED counterVars
    \/ \E l \in Loops : runQuit(l) /\ UNCHANGED counterVars
    \/ \E l \in Loops : runDeferStarted(l) /\ UNCHANGED counterVars
    \/ \E l \in Loops : runDeferDone(l) /\ UNCHANGED counterVars

Spec == Init /\ [][Next]_vars

\* ---------------------------------------------------------------------
\* TestTickerConcurrentControl: every caller runs ticker.Start(); ticker.Stop()
\* on a ticker without stopTimeout whose handler returns.
Init8 ==
    /\ started = FALSE
    /\ quit = [ch |-> 0, buf |-> 0]
    /\ wg = 0
    /\ mu = 0
    /\ stopTimeout = 0
    /\ metrics \in BOOLEAN
    /\ pc = [c \in Callers |-> "idle"]
    /\ done = [c \in Callers |-> FALSE]
    /\ lpc = << >>
    /\ hres = << >>
    /\ ncalls = 0
    /\ script = [c \in Callers |-> 0]
    /\ ticks = 0
    /\ fin = [o \in Outcomes \ {"block"} |-> 0]
    /\ log = [m \in Msgs |-> 0]
    /\ observed = 0
    /\ quiet = FALSE
    /\ CounterIdle

\* The next statement of the test's goroutine body.
CallScript(c) ==
    /\ pc[c] = "idle"
    /\ script[c] < 2
    /\ script' = [script EXCEPT ![c] = @ + 1]
    /\ pc' = [pc EXCEPT ![c] = IF script[c] = 0 THEN "Start" ELSE "Stop"]
    /\ UNCHANGED <<tickerVars, mu, config, done, loopVars, ncalls, log, quiet>>

Next8 ==
    \/ \E c \in Callers : CallScript(c) /\ UNCHANGED counterVars
    \/ \E c \in Callers : Start(c) /\ UNCHANGED counterVars
    \/ \E c \in Callers : Stop(c) /\ UNCHANGED counterVars
    \/ \E c \in Callers : StopWgWait(c) /\ UNCHANGED counterVars
    \/ \E l \in Loops : runTick(l, Outcomes \ {"block"}) /\ UNCHANGED counterVars
    \/ \E l \in Loops : executeHandler(l) /\ UNCHANGED counterVars
    \/ \E l \in Loops : runQuit(l) /\ UNCHANGED counterVars
    \/ \E l \in Loops : runDeferStarted(l) /\ UNCHANGED counterVars
    \/ \E l \in Loops : runDeferDone(l) /\ UNCHANGED counterVars

Spec8 == Init8 /\ [][Next8]_vars

\* ---------------------------------------------------------------------
\* Claims

AliveGoroutines == {l \in Loops : GoroutineAlive(l)}
ActiveLoops     == {l \in Loops : LoopActive(l)}
Blocked         == \E l \in Loops : lpc[l] = "handler" /\ hres[l] = "block"
AllDead         == \A l \in Loops : lpc[l] = "dead"
Finished        == fin["nil"] + fin["err"] + fin["panic"]

\* C1 as stated: in every reachable state at most one run goroutine is alive.
C1_Orig == Cardinality(AliveGoroutines) <= 1

\* C1, amended: at most one run goroutine is inside its for-select loop, and
\* t.started is true exactly when there is one; a Start spawns a loop only on a
\* ticker that has none, and then exactly one; two run goroutines are alive
\* together only when a stopTimeout is set, the older one past its loop and
\* about to call wg.Done().
C1_Thm ==
    /\ [](/\ Cardinality(ActiveLoops) <= 1
          /\ started <=> (Cardinality(ActiveLoops) = 1)
          /\ stopTimeout = 0 => Cardinality(AliveGoroutines) <= 1
          /\ \A l \in AliveGoroutines : LoopActive(l) \/ lpc[l] = "exiting")
    /\ [][\A c \in Callers : (pc[c] = "Start" /\ pc'[c] = "idle") =>
            IF started THEN lpc' = lpc
            ELSE ActiveLoops = {} /\ Len(lpc') = Len(lpc) + 1
                 /\ Cardinality(ActiveLoops') = 1]_vars

\* Two Start calls raced on a stopped ticker: one has spawned the loop, the
\* other is still at the lock.
C1_Witness ==
    /\ pc[1] = "Start" /\ pc[2] = "idle" /\ ncalls = 2
    /\ started /\ Len(lpc) = 1 /\ LoopActive(1)

\* C2: without stopTimeout, from the return of a Stop that waited for the loop
\* until a later Start takes effect, IsRunning() is false, every run goroutine
\* has exited and no handler invocation can begin.
C2_Thm ==
    quiet => /\ ~started
             /\ AllDead
             /\ ~ENABLED (\E l \in Loops : runTick(l, Outcomes))

C2_Witness == quiet /\ stopTimeout = 0 /\ Len(lpc) = 1 /\ ticks >= 1 /\ ticks < MaxTicks

\* C3 as stated: a Stop call that arrives while another Stop has delivered the
\* stop signal to the running ticker and the loop has not yet taken it can
\* take its "close already been called" branch at once: it is not held up
\* by the winner's wait on the loop.
C3_Orig ==
    \A c \in Callers :
        (pc[c] = "Stop" /\ started /\ quit.buf = 1) => ENABLED Stop(c)

\* C4: with a stopTimeout and the handler stuck in an invocation, the Stop that
\* delivered the signal can always take its timeout case, and leaves its select
\* only by it: it logs the forced shutdown once, unlocks and returns, with the
\* loop still in the handler and t.started still true.
C4_Thm ==
    /\ [](\A c \in Callers : pc[c] = "select" => ENABLED StopSelectTimeout(c))
    /\ [][\A c \in Callers :
            (pc[c] = "select" /\ Blocked /\ pc'[c] # "select") =>
                /\ pc'[c] = "idle"
                /\ mu' = 0
                /\ log' = [log EXCEPT !["forced shutdown due to timeout"] = @ + 1]
                /\ started /\ started'
                /\ Blocked' /\ lpc' = lpc]_vars

C4_Witness ==
    /\ stopTimeout = 1 /\ Blocked /\ started /\ mu = 0
    /\ \A c \in Callers : pc[c] = "idle"
    /\ log["forced shutdown due to timeout"] = 1

\* C5: every invocation that panicked has logged one "handler panic", every
\* one that returned an error one error line; the step that ends such an
\* invocation puts the loop back at its select and touches neither t.started
\* nor any caller; a loop leaves its for-select only by taking a stop signal,
\* and only a Stop call puts one into the channel.
C5_Thm ==
    /\ [](/\ log["handler panic"] = fin["panic"]
          /\ log["handler error"] = fin["err"])
    /\ [][\A l \in Loops :
            (lpc[l] = "handler" /\ hres[l] \in {"err", "panic"} /\ lpc'[l] # "handler") =>
                /\ lpc'[l] = "select"
                /\ started' = started /\ started
                /\ pc' = pc /\ mu' = mu
                /\ log' = [log EXCEPT ![IF hres[l] = "panic" THEN "handler panic"
                                                             ELSE "handler error"] = @ + 1]]_vars
    /\ [][/\ \A l \in Loops : (LoopActive(l) /\ lpc'[l] # lpc[l] /\ lpc[l] # "quitting") =>
                                    (LoopActive(l)' /\ (lpc'[l] = "quitting" => quit.buf = 1))
          /\ (quit.buf = 0 /\ quit'.buf = 1) => \E c \in Callers : pc[c] = "Stop"]_vars

C5_Witness ==
    /\ fin["panic"] >= 1 /\ fin["err"] >= 1
    /\ started /\ \E l \in Loops : lpc[l] = "select"

\* C6 as stated: with a metrics sink, every handler invocation that has ended
\* was observed exactly once.
C6_Orig == metrics => observed = Finished

\* C7: at most one handler invocation is in progress.
C7_Thm == Cardinality({l \in Loops : lpc[l] = "handler"}) <= 1

\* After a forced-timeout Stop and a further Start, the second loop is in the handler.
C7_Witness ==
    /\ log["forced shutdown due to timeout"] >= 1
    /\ Len(lpc) = 2 /\ lpc[2] = "handler"

\* C8: when every caller has returned from its Start and its Stop, the ticker
\* is not running and no run goroutine is left; until then some step can be
\* taken, and the WaitGroup counter never goes negative.
AllReturned == \A c \in Callers : script[c] = 2 /\ pc[c] = "idle"

C8_Thm ==
    /\ wg >= 0
    /\ AllReturned => (~started /\ AllDead /\ wg = 0 /\ mu = 0)
    /\ AllReturned \/ ENABLED Next8

\* All callers returned, after a Start that lost to another and ticks in between.
C8_Witness ==
    /\ AllReturned
    /\ log["already been started"] >= 1
    /\ ticks >= 1

\* C9: a Start that finds the ticker running logs "already been started" once
\* and changes nothing else of the ticker: no loop, same flag, same channel.
C9_Thm ==
    [][\A c \in Callers :
        (pc[c] = "Start" /\ pc'[c] # "Start" /\ started) =>
            /\ log' = [log EXCEPT !["already been started"] = @ + 1]
            /\ UNCHANGED <<started, quit, wg, lpc, hres>>]_vars

C9_Witness ==
    /\ log["already been started"] >= 1
    /\ started /\ Len(lpc) = 1 /\ quit = [ch |-> 1, buf |-> 0]

\* C10: a Stop on a ticker that is not running (never started, or flag cleared
\* and every run goroutine gone) logs "is not running" once and returns
\* from the lock without entering a wait, sending nothing and changing nothing.
NotRunning == ~started /\ AllDead

C10_Thm ==
    [][\A c \in Callers :
        (pc[c] = "Stop" /\ pc'[c] # "Stop" /\ NotRunning) =>
            /\ pc'[c] = "idle"
            /\ log' = [log EXCEPT !["is not running"] = @ + 1]
            /\ UNCHANGED <<started, quit, wg, mu, done, lpc, hres>>]_vars

\* The second of two Stop calls on a ticker that was started and fully stopped.
C10_Witness ==
    /\ log["is not running"] >= 2
    /\ Len(lpc) = 1 /\ NotRunning /\ quit.ch = 1

\* C11 as stated: a caller that is in Start() or IsRunning() can always
\* complete the call at once, whatever the other callers are doing.
C11_Orig ==
    \A c \in Callers :
        /\ pc[c] = "Start" => ENABLED Start(c)
        /\ pc[c] = "IsRunning" => ENABLED IsRunning(c)

\* =====================================================================
\* ttlcounter.Counter

\* ---- container/heap over expirationQueue.  Go indexes from 0: element i
\* of the heap is q[i + 1].
Less(q, i, j) == q[i + 1].expireAt < q[j + 1].expireAt

Swap(q, i, j) == [q EXCEPT ![i + 1] = q[j + 1], ![j + 1] = q[i + 1]]

\* heap.up: (j - 1) / 2 truncates, so the root is its own parent.
RECURSIVE up(_, _)
up(q, j) ==
    LET i == (j - 1) \div 2
    IN  IF j = 0 \/ ~Less(q, j, i) THEN q ELSE up(Swap(q, i, j), i)

\* heap.down, giving the array and the index the element came to rest at.
RECURSIVE downAt(_, _, _)
downAt(q, i, n) ==
    LET j1 == 2 * i + 1
        j  == IF j1 + 1 < n /\ Less(q, j1 + 1, j1) THEN j1 + 1 ELSE j1
    IN  IF j1 >= n THEN [q |-> q, i |-> i]
        ELSE IF ~Less(q, j, i) THEN [q |-> q, i |-> i]
        ELSE downAt(Swap(q, i, j), j, n)

\* heap.Push(&q, x): expirationQueue.Push appends, then up.
HeapPush(q, x) == up(Append(q, x), Len(q))

\* heap.Pop(&q): swap the root to the end, down, expirationQueue.Pop cuts it off.
HeapPop(q) ==
    LET n == Len(q) - 1
    IN  SubSeq(downAt(Swap(q, 0, n), 0, n).q, 1, n)

\* heap.Fix(&q, i): down, and up when down did not move the element.
HeapFix(q, i) ==
    LET r == downAt(q, i, Len(q))
    IN  IF r.i > i THEN r.q ELSE up(q, i)

\* heap.Init(&q): down from n/2 - 1 to 0.
RECURSIVE heapInitFrom(_, _)
heapInitFrom(q, i) ==
    IF i < 0 THEN q ELSE heapInitFrom(downAt(q, i, Len(q)).q, i - 1)

HeapInit(q) == heapInitFrom(q, (Len(q) \div 2) - 1)

\* The queue is a min-heap.
IsHeap(q) ==
    \A j \in 1..(Len(q) - 1) : ~Less(q, j, (j - 1) \div 2)

\* ---- Counter
Has(its, k) == k \in DOMAIN its

\* The item is in the map and lastAccess + ttl > now.
Live(k) == Has(items, k) /\ items[k].access + ttl > now

\* updateKeyInQueue writing the new time and leaving the entry where it is.
updateKeyInQueueNoFix(q, key, expireAt) ==
    LET hits == {i \in 1..Len(q) : q[i].key = key}
    IN  IF hits = {} THEN q
        ELSE LET i == CHOOSE x \in hits : \A y \in hits : x <= y
             IN  [q EXCEPT ![i].expireAt = expireAt]

\* Counter.updateKeyInQueue: the first entry of the key gets expireAt, then heap.Fix.
updateKeyInQueue(q, key, expireAt) ==
    LET hits == {i \in 1..Len(q) : q[i].key = key}
    IN  IF hits = {} THEN q
        ELSE LET i == CHOOSE x \in hits : \A y \in hits : x <= y
             IN  HeapFix([q EXCEPT ![i].expireAt = expireAt], i - 1)

\* The loop of Vacuum deleting whatever a popped entry names.
RECURSIVE vacuumFromNoAccessCheck(_, _, _, _)
vacuumFromNoAccessCheck(q, its, t, theTTL) ==
    IF Len(q) = 0 \/ q[1].expireAt > t THEN [q |-> q, items |-> its]
    ELSE vacuumFromNoAccessCheck(HeapPop(q),
                                 [k \in DOMAIN its \ {q[1].key} |-> its[k]],
                                 t, theTTL)

\* The loop of Vacuum without its break: every entry is popped.
RECURSIVE vacuumFromPopsAll(_, _, _, _)
vacuumFromPopsAll(q, its, t, theTTL) ==
    IF Len(q) = 0 THEN [q |-> q, items |-> its]
    ELSE LET item == q[1]
             del  == Has(its, item.key) /\ its[item.key].access <= item.expireAt - theTTL
         IN  vacuumFromPopsAll(HeapPop(q),
                               IF del THEN [k \in DOMAIN its \ {item.key} |-> its[k]] ELSE its,
                               t, theTTL)

\* Vacuum handling one entry per call.
vacuumFromOnce(q, its, t, theTTL) ==
    IF Len(q) = 0 \/ q[1].expireAt > t THEN [q |-> q, items |-> its]
    ELSE LET item == q[1]
             del  == Has(its, item.key) /\ its[item.key].access <= item.expireAt - theTTL
         IN  [q |-> HeapPop(q),
              items |-> IF del THEN [k \in DOMAIN its \ {item.key} |-> its[k]] ELSE its]

\* The loop of Counter.Vacuum: [q, items] when it breaks.
RECURSIVE vacuumFrom(_, _, _, _)
vacuumFrom(q, its, t, theTTL) ==
    IF Len(q) = 0 \/ q[1].expireAt > t THEN [q |-> q, items |-> its]
    ELSE LET item == q[1]
             del  == Has(its, item.key) /\ its[item.key].access <= item.expireAt - theTTL
         IN  vacuumFrom(HeapPop(q),
                        IF del THEN [k \in DOMAIN its \ {item.key} |-> its[k]] ELSE its,
                        t, theTTL)

\* What Get and Touch return.
ValueOf(its, k) == IF Has(its, k) THEN its[k].value ELSE 0

\* What Expire returns.
ExpireOf(its, k, t, theTTL) == IF Has(its, k) THEN -(t - its[k].access - theTTL) ELSE 0

\* A run of Inc calls on a key stays whole while the key is not expired at
\* time t; its are the items before the step.
RunKept(r, its, t, theTTL) ==
    [k \in Keys |-> IF Has(its, k) /\ its[k].access + theTTL > t THEN r[k] ELSE 0]

\* A call of a method: what it was, what it returned, whether its key was
\* live, and a flag: SetTTL lowered the ttl, Close found the channel closed,
\* Vacuum repeats the call before it, TTL follows New or SetTTL with an
\* argument <= 0, Keys and Len found an expired key in the map.
Called(op, k, v, wasLive, flag) ==
    /\ cops' = cops + 1
    /\ ret' = [op |-> op, key |-> k, val |-> v, live |-> wasLive, flag |-> flag]

loopState == <<stopClosed, once, closes, vl, vt>>

\* Inc storing a new Item on every call.
IncFreshItem(k) ==
    /\ Called("Inc", k, 0, Live(k), FALSE)
    /\ items' = [x \in DOMAIN items \cup {k} |->
                    IF x = k THEN [value |-> 1, access |-> now] ELSE items[x]]
    /\ expQueue' = updateKeyInQueue(
                        IF Has(items, k) THEN expQueue
                        ELSE HeapPush(expQueue, [key |-> k, expireAt |-> now + ttl]),
                        k, now + ttl)
    /\ run' = [run EXCEPT ![k] = IF ~Has(items, k) THEN 1
                                 ELSE IF run[k] > 0 THEN run[k] + 1 ELSE 0]
    /\ UNCHANGED <<ttl, now, loopState, tickerAll, callerVars>>

\* Counter.Inc.
Inc(k) ==
    LET expireAt == now + ttl
        created  == IF Has(items, k) THEN items
                    ELSE [x \in DOMAIN items \cup {k} |->
                            IF x = k THEN [value |-> 0, access |-> 0] ELSE items[x]]
        pushed   == IF Has(items, k) THEN expQueue
                    ELSE HeapPush(expQueue, [key |-> k, expireAt |-> expireAt])
    IN  /\ Called("Inc", k, 0, Live(k), FALSE)
        /\ items' = [created EXCEPT ![k] = [value |-> @.value + 1, access |-> now]]
        /\ expQueue' = updateKeyInQueue(pushed, k, expireAt)
        /\ run' = [run EXCEPT ![k] = IF ~Has(items, k) THEN 1
                                     ELSE IF run[k] > 0 THEN run[k] + 1 ELSE 0]
        /\ UNCHANGED <<ttl, now, loopState, tickerAll, callerVars>>

\* Get refreshing the item as Touch does.
GetRefreshes(k) ==
    /\ Called("Get", k, ValueOf(items, k), Live(k), FALSE)
    /\ IF Has(items, k)
         THEN /\ items' = [items EXCEPT ![k].access = now]
              /\ expQueue' = updateKeyInQueue(expQueue, k, now + ttl)
         ELSE UNCHANGED <<items, expQueue>>
    /\ UNCHANGED <<ttl, now, loopState, run, tickerAll, callerVars>>

\* Counter.Get.
Get(k) ==
    /\ Called("Get", k, ValueOf(items, k), Live(k), FALSE)
    /\ UNCHANGED <<items, ttl, expQueue, now, loopState, run, tickerAll, callerVars>>

\* Touch moving the queue entry and leaving the item's access time.
TouchKeepsAccess(k) ==
    /\ Called("Touch", k, ValueOf(items, k), Live(k), FALSE)
    /\ IF Has(items, k)
         THEN expQueue' = updateKeyInQueue(expQueue, k, now + ttl)
         ELSE UNCHANGED expQueue
    /\ UNCHANGED <<items, ttl, now, loopState, run, tickerAll, callerVars>>

\* Counter.Touch.
Touch(k) ==
    /\ Called("Touch", k, ValueOf(items, k), Live(k), FALSE)
    /\ IF Has(items, k)
         THEN /\ items' = [items EXCEPT ![k].access = now]
              /\ expQueue' = updateKeyInQueue(expQueue, k, now + ttl)
         ELSE UNCHANGED <<items, expQueue>>
    /\ UNCHANGED <<ttl, now, loopState, run, tickerAll, callerVars>>

\* Del taking the key's entries out of the queue as well.
DelDropsIndexEntry(k) ==
    /\ Called("Del", k, 0, Live(k), FALSE)
    /\ items' = [x \in DOMAIN items \ {k} |-> items[x]]
    /\ expQueue' = HeapInit(SelectSeq(expQueue, LAMBDA e : e.key # k))
    /\ run' = [run EXCEPT ![k] = 0]
    /\ UNCHANGED <<ttl, now, loopState, tickerAll, callerVars>>

\* Counter.Del.
Del(k) ==
    /\ Called("Del", k, 0, Live(k), FALSE)
    /\ items' = [x \in DOMAIN items \ {k} |-> items[x]]
    /\ run' = [run EXCEPT ![k] = 0]
    /\ UNCHANGED <<ttl, expQueue, now, loopState, tickerAll, callerVars>>

\* Reset clearing the value only.
ResetKeepsAccess(k) ==
    /\ Called("Reset", k, 0, Live(k), FALSE)
    /\ IF Has(items, k)
         THEN items' = [items EXCEPT ![k].value = 0]
         ELSE UNCHANGED items
    /\ run' = [run EXCEPT ![k] = 0]
    /\ UNCHANGED <<ttl, expQueue, now, loopState, tickerAll, callerVars>>

\* Counter.Reset.
Reset(k) ==
    /\ Called("Reset", k, 0, Live(k), FALSE)
    /\ IF Has(items, k)
         THEN items' = [items EXCEPT ![k] = [value |-> 0, access |-> now]]
         ELSE UNCHANGED items
    /\ run' = [run EXCEPT ![k] = 0]
    /\ UNCHANGED <<ttl, expQueue, now, loopState, tickerAll, callerVars>>

\* Counter.Expire.
Expire(k) ==
    /\ Called("Expire", k, ExpireOf(items, k, now, ttl), Live(k), FALSE)
    /\ UNCHANGED <<items, ttl, expQueue, now, loopState, run, tickerAll, callerVars>>

\* Counter.Vacuum(t) called directly, with any time.
Vacuum(t) ==
    LET r == vacuumFrom(expQueue, items, t, ttl)
    IN  /\ Called("Vacuum", "", t, FALSE, ret.op = "Vacuum" /\ ret.val = t)
        /\ expQueue' = r.q
        /\ items' = r.items
        /\ run' = RunKept(run, items, IF t > now THEN t ELSE now, ttl)
        /\ UNCHANGED <<ttl, now, loopState, tickerAll, callerVars>>

\* SetTTL scheduling every entry a ttl from now.
SetTTLFromNow(arg) ==
    LET newTTL == IF arg <= 0 THEN DefaultTTL ELSE arg
        newQueue == [i \in 1..Len(expQueue) |->
                        [key |-> expQueue[i].key, expireAt |-> now + newTTL]]
    IN  /\ Called("SetTTL", "", arg, FALSE, newTTL < ttl)
        /\ ttl' = newTTL
        /\ expQueue' = IF ttl = newTTL THEN expQueue ELSE HeapInit(newQueue)
        /\ run' = RunKept(run, items, now, newTTL)
        /\ UNCHANGED <<items, now, loopState, tickerAll, callerVars>>

\* SetTTL storing its argument as it comes.
SetTTLNoDefault(arg) ==
    LET newQueue == [i \in 1..Len(expQueue) |->
                        [key |-> expQueue[i].key,
                         expireAt |-> (expQueue[i].expireAt - ttl) + arg]]
    IN  /\ Called("SetTTL", "", arg, FALSE, arg < ttl)
        /\ ttl' = arg
        /\ expQueue' = IF ttl = arg THEN expQueue ELSE HeapInit(newQueue)
        /\ run' = RunKept(run, items, now, arg)
        /\ UNCHANGED <<items, now, loopState, tickerAll, callerVars>>

\* Counter.SetTTL.
SetTTL(arg) ==
    LET newTTL == IF arg <= 0 THEN DefaultTTL ELSE arg
        newQueue == [i \in 1..Len(expQueue) |->
                        [key |-> expQueue[i].key,
                         expireAt |-> (expQueue[i].expireAt - ttl) + newTTL]]
    IN  /\ Called("SetTTL", "", arg, FALSE, newTTL < ttl)
        /\ ttl' = newTTL
        /\ expQueue' = IF ttl = newTTL THEN expQueue ELSE HeapInit(newQueue)
        /\ run' = RunKept(run, items, now, newTTL)
        /\ UNCHANGED <<items, now, loopState, tickerAll, callerVars>>

\* Close without the sync.Once.
CloseNoOnce ==
    /\ Called("Close", "", 0, FALSE, once)
    /\ stopClosed' = TRUE
    /\ closes' = closes + 1
    /\ once' = TRUE
    /\ UNCHANGED <<items, ttl, expQueue, now, vl, vt, run, tickerAll, callerVars>>

\* Counter.Close: sync.Once runs close(c.stop) on the first call only.
Close ==
    /\ Called("Close", "", 0, FALSE, once)
    /\ IF once THEN UNCHANGED <<stopClosed, closes>>
               ELSE stopClosed' = TRUE /\ closes' = closes + 1
    /\ once' = TRUE
    /\ UNCHANGED <<items, ttl, expQueue, now, vl, vt, run, tickerAll, callerVars>>

\* Counter.TTL.
TTL ==
    /\ Called("TTL", "", ttl, FALSE, ret.op \in {"New", "SetTTL"} /\ ret.val <= 0)
    /\ UNCHANGED <<items, ttl, expQueue, now, loopState, run, tickerAll, callerVars>>

\* Keys leaving out the expired items.
CounterKeysLiveOnly ==
    /\ Called("Keys", "", {k \in DOMAIN items : Live(k)}, FALSE, \E k \in DOMAIN items : ~Live(k))
    /\ UNCHANGED <<items, ttl, expQueue, now, loopState, run, tickerAll, callerVars>>

\* Counter.Keys: the keys of the map, in no order.
CounterKeys ==
    /\ Called("Keys", "", DOMAIN items, FALSE, \E k \in DOMAIN items : ~Live(k))
    /\ UNCHANGED <<items, ttl, expQueue, now, loopState, run, tickerAll, callerVars>>

\* Counter.Len.
CounterLen ==
    /\ Called("Len", "", Cardinality(DOMAIN items), FALSE, \E k \in DOMAIN items : ~Live(k))
    /\ UNCHANGED <<items, ttl, expQueue, now, loopState, run, tickerAll, callerVars>>

\* A second passes.
ClockTick ==
    /\ now < MaxTime
    /\ now' = now + 1
    /\ run' = RunKept(run, items, now + 1, ttl)
    /\ UNCHANGED <<items, ttl, expQueue, loopState, cops, ret, tickerAll, callerVars>>

\* vacuumLoop: case now := <-ticker.C.
vacuumLoopTick ==
    /\ vl = "select"
    /\ vl' = "vacuum"
    /\ vt' = now
    /\ UNCHANGED <<items, ttl, expQueue, now, stopClosed, once, closes, cops, ret, run, tickerAll, callerVars>>

\* vacuumLoop: c.Vacuum(now) with the tick's time, once it has the mutex.
vacuumLoopVacuum ==
    LET r == vacuumFrom(expQueue, items, vt, ttl)
    IN  /\ vl = "vacuum"
        /\ cmu = 0
        /\ vl' = "select"
        /\ expQueue' = r.q
        /\ items' = r.items
        /\ run' = RunKept(run, items, now, ttl)
        /\ UNCHANGED <<ttl, now, stopClosed, once, closes, vt, cops, ret, tickerAll, callerVars>>

\* vacuumLoop: case <-c.stop.
vacuumLoopStop ==
    /\ vl = "select"
    /\ stopClosed
    /\ vl' = "exited"
    /\ UNCHANGED <<items, ttl, expQueue, now, stopClosed, once, closes, vt, cops, ret, run, tickerAll, callerVars>>

TTLArgs == {-1, 0, 1, 2}

\* The ticker as New leaves it, without options.
TickerIdle ==
    /\ started = FALSE
    /\ quit = [ch |-> 0, buf |-> 0]
    /\ wg = 0
    /\ mu = 0
    /\ stopTimeout = 0
    /\ metrics = FALSE
    /\ pc = [c \in Callers |-> "idle"]
    /\ done = [c \in Callers |-> FALSE]
    /\ lpc = << >>
    /\ hres = << >>
    /\ ncalls = 0
    /\ script = [c \in Callers |-> 0]
    /\ ticks = 0
    /\ fin = [o \in Outcomes \ {"block"} |-> 0]
    /\ log = [m \in Msgs |-> 0]
    /\ observed = 0
    /\ quiet = FALSE

\* ttlcounter.New(arg).
InitC ==
    /\ TickerIdle
    /\ items = << >>
    /\ \E arg \in TTLArgs :
            /\ ttl = (IF arg <= 0 THEN DefaultTTL ELSE arg)
            /\ ret = [op |-> "New", key |-> "", val |-> arg, live |-> FALSE, flag |-> FALSE]
    /\ expQueue = HeapInit(<< >>)
    /\ now = 0
    /\ stopClosed = FALSE
    /\ once = FALSE
    /\ closes = 0
    /\ vl = "select"
    /\ vt = 0
    /\ cops = 0
    /\ run = [k \in Keys |-> 0]
    /\ cmu = 0
    /\ cpc = [c \in Callers |-> "idle"]
    /\ tmp = [c \in Callers |-> [now |-> 0, value |-> 0]]

\* Calls are made while the behaviour has some left.
CallsLeft == cops < MaxCOps

NextC ==
    \/ CallsLeft /\ \E k \in Keys : Inc(k)
    \/ CallsLeft /\ \E k \in Keys : Get(k)
    \/ CallsLeft /\ \E k \in Keys : Touch(k)
    \/ CallsLeft /\ \E k \in Keys : Del(k)
    \/ CallsLeft /\ \E k \in Keys : Reset(k)
    \/ CallsLeft /\ \E k \in Keys : Expire(k)
    \/ CallsLeft /\ \E t \in 0..MaxTime : Vacuum(t)
    \/ CallsLeft /\ \E arg \in TTLArgs : SetTTL(arg)
    \/ CallsLeft /\ Close
    \/ CallsLeft /\ TTL
    \/ CallsLeft /\ CounterKeys
    \/ CallsLeft /\ CounterLen
    \/ ClockTick
    \/ vacuumLoopTick
    \/ vacuumLoopVacuum
    \/ vacuumLoopStop

SpecC == InitC /\ [][NextC]_vars

\* ---- The mutating methods alone, with one call more: long enough for a
\* key that lost its queue entry to be incremented again and the ttl lowered.
CallsLeft23 == cops < MaxCOps + 1

Next23 ==
    \/ CallsLeft23 /\ \E k \in Keys : Inc(k)
    \/ CallsLeft23 /\ \E k \in Keys : Reset(k)
    \/ CallsLeft23 /\ \E t \in 0..MaxTime : Vacuum(t)
    \/ CallsLeft23 /\ \E arg \in TTLArgs : SetTTL(arg)
    \/ ClockTick
    \/ vacuumLoopTick
    \/ vacuumLoopVacuum

Spec23 == InitC /\ [][Next23]_vars

\* ---- TestCounterConcurrentAccess: every caller runs Inc, Get, Touch on one
\* key against New(10), then the test reads the key.  Inc is split where
\* item.value++ reads and where it writes.
K19 == "a"

\* A ttl no clock of the model reaches.
TTL19 == MaxTime + 1

Init19 ==
    /\ TickerIdle
    /\ items = << >>
    /\ ttl = TTL19
    /\ expQueue = HeapInit(<< >>)
    /\ now = 0
    /\ stopClosed = FALSE
    /\ once = FALSE
    /\ closes = 0
    /\ vl = "select"
    /\ vt = 0
    /\ cops = 0
    /\ ret = NoRet
    /\ run = [k \in Keys |-> 0]
    /\ cmu = 0
    /\ cpc = [c \in Callers |-> "Inc"]
    /\ tmp = [c \in Callers |-> [now |-> 0, value |-> 0]]

counterData == <<items, ttl, expQueue, now, loopState, cops, ret, run>>

\* c.mu.Lock() entered without waiting for the mutex.
Lock19NoMutex(c) ==
    /\ cpc[c] \in {"Inc", "Get", "Touch"}
    /\ cmu' = c
    /\ cpc' = [cpc EXCEPT ![c] = IF @ = "Inc" THEN "IncLocked"
                                 ELSE IF @ = "Get" THEN "GetLocked" ELSE "TouchLocked"]
    /\ UNCHANGED <<tmp, counterData, tickerAll>>

\* c.mu.Lock() at the head of Inc, Get and Touch.
Lock19(c) ==
    /\ cpc[c] \in {"Inc", "Get", "Touch"}
    /\ cmu = 0
    /\ cmu' = c
    /\ cpc' = [cpc EXCEPT ![c] = IF @ = "Inc" THEN "IncLocked"
                                 ELSE IF @ = "Get" THEN "GetLocked" ELSE "TouchLocked"]
    /\ UNCHANGED <<tmp, counterData, tickerAll>>

\* Inc up to the read of item.value: the time, the item and its queue entry.
IncLoad(c) ==
    LET created == IF Has(items, K19) THEN items
                   ELSE [x \in DOMAIN items \cup {K19} |->
                           IF x = K19 THEN [value |-> 0, access |-> 0] ELSE items[x]]
    IN  /\ cpc[c] = "IncLocked"
        /\ items' = created
        /\ expQueue' = IF Has(items, K19) THEN expQueue
                       ELSE HeapPush(expQueue, [key |-> K19, expireAt |-> now + ttl])
        /\ tmp' = [tmp EXCEPT ![c] = [now |-> now, value |-> created[K19].value]]
        /\ cpc' = [cpc EXCEPT ![c] = "IncLoaded"]
        /\ UNCHANGED <<cmu, ttl, now, loopState, cops, ret, run, tickerAll>>

\* Inc from the write of item.value to the deferred Unlock.
IncStore(c) ==
    /\ cpc[c] = "IncLoaded"
    /\ items' = [items EXCEPT ![K19] = [value |-> tmp[c].value + 1, access |-> tmp[c].now]]
    /\ expQueue' = updateKeyInQueue(expQueue, K19, tmp[c].now + ttl)
    /\ cmu' = 0
    /\ cpc' = [cpc EXCEPT ![c] = "Get"]
    /\ UNCHANGED <<tmp, ttl, now, loopState, cops, ret, run, tickerAll>>

\* Get under the lock.
Get19(c) ==
    /\ cpc[c] = "GetLocked"
    /\ ret' = [op |-> "Get", key |-> K19, val |-> ValueOf(items, K19), live |-> Live(K19), flag |-> FALSE]
    /\ cmu' = 0
    /\ cpc' = [cpc EXCEPT ![c] = "Touch"]
    /\ UNCHANGED <<tmp, items, ttl, expQueue, now, loopState, cops, run, tickerAll>>

\* Touch under the lock.
Touch19(c) ==
    /\ cpc[c] = "TouchLocked"
    /\ ret' = [op |-> "Touch", key |-> K19, val |-> ValueOf(items, K19), live |-> Live(K19), flag |-> FALSE]
    /\ IF Has(items, K19)
         THEN /\ items' = [items EXCEPT ![K19].access = now]
              /\ expQueue' = updateKeyInQueue(expQueue, K19, now + ttl)
         ELSE UNCHANGED <<items, expQueue>>
    /\ cmu' = 0
    /\ cpc' = [cpc EXCEPT ![c] = "done"]
    /\ UNCHANGED <<tmp, ttl, now, loopState, cops, run, tickerAll>>

\* The test's Get after wg.Wait().
FinalGet ==
    /\ \A c \in Callers : cpc[c] = "done"
    /\ ret.op # "FinalGet"
    /\ ret' = [op |-> "FinalGet", key |-> K19, val |-> ValueOf(items, K19), live |-> Live(K19), flag |-> FALSE]
    /\ UNCHANGED <<callerVars, items, ttl, expQueue, now, loopState, cops, run, tickerAll>>

Next19 ==
    \/ \E c \in Callers : Lock19(c)
    \/ \E c \in Callers : IncLoad(c)
    \/ \E c \in Callers : IncStore(c)
    \/ \E c \in Callers : Get19(c)
    \/ \E c \in Callers : Touch19(c)
    \/ FinalGet
    \/ ClockTick
    \/ vacuumLoopTick
    \/ vacuumLoopVacuum

Spec19 == Init19 /\ [][Next19]_vars

\* The queue handed to container/heap is a heap after every operation.
QueueIsHeap == IsHeap(expQueue)

\* C12: while a key stays unexpired, n >= 1 calls of Inc begun on the absent
\* key leave its value at n, and a Get of it returns n, whatever Vacuum runs
\* came between.
C12_Thm ==
    /\ \A k \in Keys : run[k] >= 1 => ValueOf(items, k) = run[k]
    /\ (ret.op = "Get" /\ run[ret.key] >= 1) => ret.val = run[ret.key]

\* Two Inc calls a second apart, a background Vacuum after them, then Get.
C12_Witness ==
    /\ ret.op = "Get" /\ ret.key = "a" /\ ret.val = 2 /\ run["a"] = 2
    /\ now >= 1 /\ vt >= 1 /\ vl = "select"

\* C13 as stated: a Get of a key that is absent or logically expired returns 0.
C13_Orig ==
    (ret.op = "Get" /\ ~ret.live) => ret.val = 0

\* C14 as stated: a Touch of a key that is absent or logically expired returns
\* 0 and leaves the items and the queue as they were.
C14_Orig ==
    [][(cops' = cops + 1 /\ ret'.op = "Touch" /\ ~Live(ret'.key)) =>
            (ret'.val = 0 /\ UNCHANGED <<items, expQueue>>)]_vars

\* C15 as stated: a Touch of a present, unexpired key returns its value,
\* keeps the value, sets lastAccess to now, leaves the key an entry at
\* now + ttl in the queue, and Expire then gives ttl.
C15_Orig ==
    [][(cops' = cops + 1 /\ ret'.op = "Touch" /\ Live(ret'.key)) =>
            LET k == ret'.key
            IN  /\ ret'.val = items[k].value
                /\ items'[k] = [value |-> items[k].value, access |-> now]
                /\ \E i \in 1..Len(expQueue') :
                        expQueue'[i] = [key |-> k, expireAt |-> now + ttl]
                /\ ExpireOf(items', k, now', ttl') = ttl]_vars

\* C16: a Vacuum, called with a time t or run by the loop with its tick's
\* time, deletes only items with lastAccess + ttl <= that time, and changes
\* no item it keeps.
C16_Thm ==
    [][\A t \in 0..MaxTime :
          (\/ cops' = cops + 1 /\ ret'.op = "Vacuum" /\ ret'.val = t
           \/ vl = "vacuum" /\ vl' = "select" /\ vt = t) =>
              /\ \A k \in DOMAIN items \ DOMAIN items' : items[k].access + ttl <= t
              /\ \A k \in DOMAIN items' : Has(items, k) /\ items'[k] = items[k]]_vars

\* A Vacuum has popped the only entry of a key that was refreshed after the
\* entry was scheduled, and the item is still there.
C16_Witness ==
    /\ ret.op = "Vacuum" /\ expQueue = << >>
    /\ Has(items, "a") /\ items["a"].access + ttl > ret.val
    /\ items["a"].access >= 1

\* C17 as stated: no key of the map has two entries in the queue.
C17_Orig ==
    \A k \in DOMAIN items :
        Cardinality({i \in 1..Len(expQueue) : expQueue[i].key = k}) <= 1

\* C18 as stated: every key of the map has an entry in the queue.
C18_Orig ==
    \A k \in DOMAIN items : \E i \in 1..Len(expQueue) : expQueue[i].key = k

\* C19: with every caller's Inc done and no expiry, the key's value is the
\* number of callers whose Inc has returned, so the test's last Get gives
\* the number of callers.
C19_Thm ==
    /\ cmu = 0 => ValueOf(items, K19) =
                      Cardinality({c \in Callers : cpc[c] \notin {"Inc", "IncLocked", "IncLoaded"}})
    /\ ret.op = "FinalGet" => ret.val = NumCallers

\* The last Get, after seconds passed and the loop's Vacuum ran.
C19_Witness ==
    /\ ret.op = "FinalGet" /\ ret.val = NumCallers
    /\ now >= 1 /\ vt >= 1 /\ vl = "select"

\* C20: Del can always be called and returns; afterwards the key is gone and reads as 0, every
\* other item is as it was, and the queue, the key's own entries included,
\* and the ttl are untouched.
C20_Thm ==
    /\ [](cops < MaxCOps => \A k \in Keys : ENABLED Del(k))
    /\ [][(cops' = cops + 1 /\ ret'.op = "Del") =>
            LET k == ret'.key
            IN  /\ items' = [x \in DOMAIN items \ {k} |-> items[x]]
                /\ ValueOf(items', k) = 0
                /\ (~Has(items, k) => items' = items)
                /\ UNCHANGED <<expQueue, ttl>>]_vars

\* A present key was deleted: the other key is still there and the deleted
\* key's entry is still in the queue.
C20_Witness ==
    /\ ret.op = "Del" /\ ret.live /\ ~Has(items, ret.key)
    /\ items # << >>
    /\ \E i \in 1..Len(expQueue) : expQueue[i].key = ret.key

\* A step in which Vacuum ran with time t: a direct call, or the loop's.
VacuumStep(t) ==
    \/ cops' = cops + 1 /\ ret'.op = "Vacuum" /\ ret'.val = t
    \/ vl = "vacuum" /\ vl' = "select" /\ vt = t

\* How often e occurs in the queue q.
Count(q, e) == Cardinality({i \in 1..Len(q) : q[i] = e})

\* The queues p and q hold the same entries, as often.
SameEntries(p, q) ==
    /\ Len(p) = Len(q)
    /\ \A i \in 1..Len(p) : Count(p, p[i]) = Count(q, p[i])

\* C21: Reset of a present key leaves it present with value 0 and
\* lastAccess now, so that Get gives 0 and Expire more than 0; Reset of an
\* absent key changes no item and creates none.  No other item changes.
C21_Thm ==
    [][(cops' = cops + 1 /\ ret'.op = "Reset") =>
            LET k == ret'.key
            IN  IF Has(items, k)
                  THEN /\ items' = [items EXCEPT ![k] = [value |-> 0, access |-> now]]
                       /\ ValueOf(items', k) = 0
                       /\ ExpireOf(items', k, now', ttl') > 0
                  ELSE items' = items]_vars

\* A key incremented earlier was reset at a later second.
C21_Witness ==
    /\ ret.op = "Reset" /\ Has(items, ret.key)
    /\ items[ret.key].value = 0 /\ items[ret.key].access >= 1

\* C22: a SetTTL that changes the ttl gives every queue entry the expireAt
\* (expireAt - old ttl) + new ttl, keeps the entries' keys, leaves the queue
\* a heap and changes no item.
C22_Thm ==
    [][(cops' = cops + 1 /\ ret'.op = "SetTTL" /\ ttl' # ttl) =>
            /\ SameEntries(expQueue',
                           [i \in 1..Len(expQueue) |->
                               [key |-> expQueue[i].key,
                                expireAt |-> (expQueue[i].expireAt - ttl) + ttl']])
            /\ IsHeap(expQueue')
            /\ items' = items]_vars

\* The ttl was lowered with two entries queued, one of them scheduled from
\* an access before now.
C22_Witness ==
    /\ ret.op = "SetTTL" /\ ret.flag /\ Len(expQueue) >= 2
    /\ \E i \in 1..Len(expQueue) : expQueue[i].expireAt < now + ttl

\* C23 as stated: when the last call lowered the ttl and a key was last
\* touched by Inc, a Vacuum with a time of lastAccess + ttl or later removes
\* the key.
C23_Orig ==
    [][\A t \in 0..MaxTime : \A k \in Keys :
          (/\ VacuumStep(t)
           /\ ret.op = "SetTTL" /\ ret.flag
           /\ Has(items, k) /\ items[k].value >= 1
           /\ items[k].access + ttl <= t) => ~Has(items', k)]_vars

\* C24: the ttl is positive; after New(arg) or SetTTL(arg) it is DefaultTTL
\* when arg <= 0 and arg otherwise; TTL() returns it.
C24_Thm ==
    /\ ttl > 0
    /\ ret.op \in {"New", "SetTTL"} =>
            ttl = (IF ret.val <= 0 THEN DefaultTTL ELSE ret.val)
    /\ ret.op = "TTL" => ret.val = ttl

\* TTL() right after New or SetTTL with an argument <= 0.
C24_Witness ==
    ret.op = "TTL" /\ ret.flag /\ ret.val = DefaultTTL

\* C25: the stop channel is closed at most once, by the first Close; a
\* later Close changes nothing.
C25_Thm ==
    /\ [](closes <= 1 /\ (once <=> closes = 1) /\ (stopClosed <=> once))
    /\ [][(cops' = cops + 1 /\ ret'.op = "Close" /\ once) =>
            UNCHANGED <<items, ttl, expQueue, now, stopClosed, once, closes, vl, vt>>]_vars

\* A Close after the first.
C25_Witness ==
    ret.op = "Close" /\ ret.flag /\ closes = 1 /\ stopClosed

\* C26 as stated: once Close has returned, an item leaves the map only in a
\* Del or a direct Vacuum call.
C26_Orig ==
    [][(once /\ \E k \in DOMAIN items : ~Has(items', k)) =>
            (cops' = cops + 1 /\ ret'.op \in {"Del", "Vacuum"})]_vars

\* C27: a Vacuum with time t leaves only entries with expireAt > t, keeps
\* every entry with expireAt > t, and deletes an item only when an entry of
\* its key with expireAt <= t equal to the item's lastAccess + ttl was popped.
C27_Thm ==
    [][\A t \in 0..MaxTime :
          VacuumStep(t) =>
              /\ \A i \in 1..Len(expQueue') : expQueue'[i].expireAt > t
              /\ SameEntries(expQueue', SelectSeq(expQueue, LAMBDA e : e.expireAt > t))
              /\ \A k \in DOMAIN items \ DOMAIN items' :
                    \E i \in 1..Len(expQueue) :
                        /\ expQueue[i].key = k
                        /\ expQueue[i].expireAt <= t
                        /\ expQueue[i].expireAt = items[k].access + ttl]_vars

\* After two Inc calls and a Vacuum, the third call: one key was swept, the
\* other is kept with its entry, which expires later.
C27_Witness ==
    /\ ret.op = "Vacuum" /\ cops = 3
    /\ DOMAIN items = {"b"} /\ Len(expQueue) = 1
    /\ expQueue[1].key = "b" /\ expQueue[1].expireAt > ret.val

\* C28: Keys returns the keys of the map and Len their number, expired
\* items included, and neither changes the counter.
C28_Thm ==
    [][/\ (cops' = cops + 1 /\ ret'.op = "Keys") =>
            /\ ret'.val = DOMAIN items
            /\ \A k \in DOMAIN items : ~Live(k) => k \in ret'.val
            /\ UNCHANGED <<items, expQueue, ttl>>
       /\ (cops' = cops + 1 /\ ret'.op = "Len") =>
            /\ ret'.val = Cardinality(DOMAIN items)
            /\ UNCHANGED <<items, expQueue, ttl>>]_vars

\* Keys returned both keys while one of them was expired.
C28_Witness ==
    ret.op = "Keys" /\ ret.flag /\ ret.val = Keys

\* C29: Get changes no item, no queue entry and not the ttl.
C29_Thm ==
    [][(cops' = cops + 1 /\ ret'.op = "Get") =>
            UNCHANGED <<items, expQueue, ttl>>]_vars

\* Get read an expired item that is still in the map: lastAccess and the
\* entry are as Inc left them.
C29_Witness ==
    /\ ret.op = "Get" /\ ret.val >= 1 /\ ~ret.live
    /\ Has(items, ret.key) /\ items[ret.key].access + ttl <= now
    /\ \E i \in 1..Len(expQueue) :
            expQueue[i] = [key |-> ret.key, expireAt |-> items[ret.key].access + ttl]

\* C30: Vacuum run again with the same time on what a Vacuum left changes
\* neither the items nor the queue.
C30_Thm ==
    [][\A t \in 0..MaxTime :
          VacuumStep(t) =>
              LET again == vacuumFrom(expQueue', items', t, ttl')
              IN  again.q = expQueue' /\ again.items = items']_vars

\* The same Vacuum call twice running, with entries left in the queue.
C30_Witness ==
    /\ ret.op = "Vacuum" /\ ret.flag /\ ret.val >= 1
    /\ Len(expQueue) >= 1 /\ items # << >>

\* =====================================================================
\* The ticker under fair scheduling: a run goroutine that can take a step
\* takes it, and a select that finds the quit signal ready again and again
\* chooses it in the end (the choice among ready cases is random).
Fairness ==
    /\ WF_vars(\E l \in Loops : executeHandler(l) /\ UNCHANGED counterVars)
    /\ SF_vars(\E l \in Loops : runQuit(l) /\ UNCHANGED counterVars)
    /\ WF_vars(\E l \in Loops : runDeferStarted(l) /\ UNCHANGED counterVars)
    /\ WF_vars(\E l \in Loops : runDeferDone(l) /\ UNCHANGED counterVars)

\* A ticker built WithStopTimeout, called by one goroutine: its calls come one
\* after the other, and a Stop that has timed out leaves it free to call again.
InitFair ==
    /\ started = FALSE
    /\ quit = [ch |-> 0, buf |-> 0]
    /\ wg = 0
    /\ mu = 0
    /\ stopTimeout = 1
    /\ metrics \in BOOLEAN
    /\ pc = [c \in Callers |-> "idle"]
    /\ done = [c \in Callers |-> FALSE]
    /\ lpc = << >>
    /\ hres = << >>
    /\ ncalls = 0
    /\ script = [c \in Callers |-> 0]
    /\ ticks = 0
    /\ fin = [o \in Outcomes \ {"block"} |-> 0]
    /\ log = [m \in Msgs |-> 0]
    /\ observed = 0
    /\ quiet = FALSE
    /\ CounterIdle

NextFair ==
    \/ \E op \in {"Start", "Stop", "IsRunning"} : Call(1, op) /\ UNCHANGED counterVars
    \/ Start(1) /\ UNCHANGED counterVars
    \/ Stop(1) /\ UNCHANGED counterVars
    \/ StopHelper(1) /\ UNCHANGED counterVars
    \/ StopSelectDone(1) /\ UNCHANGED counterVars
    \/ StopSelectTimeout(1) /\ UNCHANGED counterVars
    \/ IsRunning(1) /\ UNCHANGED counterVars
    \/ \E l \in Loops : runTick(l, Outcomes) /\ UNCHANGED counterVars
    \/ \E l \in Loops : executeHandler(l) /\ UNCHANGED counterVars
    \/ \E l \in Loops : runQuit(l) /\ UNCHANGED counterVars
    \/ \E l \in Loops : runDeferStarted(l) /\ UNCHANGED counterVars
    \/ \E l \in Loops : runDeferDone(l) /\ UNCHANGED counterVars

SpecFair == InitFair /\ [][NextFair]_vars /\ Fairness

\* The l-th run goroutine is in its loop with the stop signal pending and no
\* Stop waiting for it: the Stop that sent the signal has timed out and returned.
Abandoned(l) ==
    l \in Loops /\ LoopActive(l) /\ quit.buf = 1 /\ mu = 0

\* C31: a loop abandoned by a forced-timeout Stop, unless its handler never
\* returns, in the end takes the pending signal and leaves its loop with
\* t.started false, whether or not another Stop is called.
C31_Thm ==
    \A l \in 1..MaxOps :
        Abandoned(l) ~>
            \/ l \in Loops /\ lpc[l] = "exiting" /\ ~started
            \/ l \in Loops /\ lpc[l] = "handler" /\ hres[l] = "block"

\* Start, then a Stop that timed out while the handler ran, and no other
\* call: the handler returned, the loop took the signal and is gone.
C31_Witness ==
    /\ ncalls = 2 /\ log["forced shutdown due to timeout"] = 1
    /\ Finished >= 1 /\ log["quit..."] = 1
    /\ ~started /\ AllDead /\ Len(lpc) = 1

\* C32: t.started is true exactly while a run goroutine is in its loop: it
\* is set in the step that spawns the goroutine, and it is false when a
\* Stop that waited for the goroutine sees wg.Wait() return.
C32_Thm ==
    /\ [](started <=> \E l \in Loops : LoopActive(l))
    /\ [][/\ Len(lpc') > Len(lpc) => (~started /\ started' /\ lpc'[Len(lpc')] = "select")
          /\ \A c \in Callers :
                (/\ pc[c] \in {"wgWait", "select"}
                 /\ pc'[c] = "idle"
                 /\ log'["forced shutdown due to timeout"] = log["forced shutdown due to timeout"])
                    => ~started']_vars

\* A Stop is waiting in wg.Wait() while the goroutine, having cleared
\* t.started, has not yet called wg.Done().
C32_Witness ==
    /\ \E c \in Callers : pc[c] = "wgWait"
    /\ \E l \in Loops : lpc[l] = "exiting"
    /\ ~started /\ wg = 1

\* C33: a Stop on a running ticker whose quit channel still holds the
\* signal of a Stop that timed out sends nothing, logs "close already been
\* called" and nothing else, and returns from the lock without waiting.
C33_Thm ==
    [][\A c \in Callers :
        (pc[c] = "Stop" /\ pc'[c] # "Stop" /\ started /\ quit.buf = 1) =>
            /\ pc'[c] = "idle"
            /\ log' = [log EXCEPT !["close already been called"] = @ + 1]
            /\ UNCHANGED <<started, quit, wg, mu, done, lpc, hres>>]_vars

\* The second Stop has returned while the handler is stuck and the first
\* Stop's signal is still in the channel.
C33_Witness ==
    /\ log["close already been called"] = 1
    /\ log["forced shutdown due to timeout"] = 1
    /\ Blocked /\ started /\ quit.buf = 1
    /\ \A c \in Callers : pc[c] = "idle"

\* C34 as stated: with the stop signal delivered and not yet taken, the loop
\* begins no handler invocation.
C34_Orig ==
    [][\A l \in Loops :
        (quit.buf = 1 /\ lpc[l] = "select") => lpc'[l] # "handler"]_vars

\* ---------------------------------------------------------------------
\* One goroutine calling Start(), Stop(), Start() on a ticker built
\* WithStopTimeout, and nothing after.
CallScript35 ==
    /\ pc[1] = "idle"
    /\ script[1] < 3
    /\ script' = [script EXCEPT ![1] = @ + 1]
    /\ pc' = [pc EXCEPT ![1] = IF script[1] = 1 THEN "Stop" ELSE "Start"]
    /\ UNCHANGED <<tickerVars, mu, config, done, loopVars, ncalls, log, quiet>>

Next35 ==
    \/ CallScript35 /\ UNCHANGED counterVars
    \/ Start(1) /\ UNCHANGED counterVars
    \/ Stop(1) /\ UNCHANGED counterVars
    \/ StopHelper(1) /\ UNCHANGED counterVars
    \/ StopSelectDone(1) /\ UNCHANGED counterVars
    \/ StopSelectTimeout(1) /\ UNCHANGED counterVars
    \/ \E l \in Loops : runTick(l, Outcomes) /\ UNCHANGED counterVars
    \/ \E l \in Loops : executeHandler(l) /\ UNCHANGED counterVars
    \/ \E l \in Loops : runQuit(l) /\ UNCHANGED counterVars
    \/ \E l \in Loops : runDeferStarted(l) /\ UNCHANGED counterVars
    \/ \E l \in Loops : runDeferDone(l) /\ UNCHANGED counterVars

Spec35 == InitFair /\ [][Next35]_vars

\* C35 as stated: once the last Start has returned, and no Stop is called
\* after it, the ticker is and stays running.
C35_Orig ==
    (script[1] = 3 /\ pc[1] = "idle") => started

\* ---------------------------------------------------------------------
\* The ticker with started an atomic.Bool and no mutex (the second ticker.go):
\* Start is a Load, and then, when it read false, the making of the channel,
\* the Store, wg.Add(1) and go t.run().  Callers call Start only.
CallStartAtomic(c) ==
    /\ pc[c] = "idle"
    /\ ncalls < MaxOps
    /\ ncalls' = ncalls + 1
    /\ pc' = [pc EXCEPT ![c] = "StartLoad"]
    /\ UNCHANGED <<tickerVars, mu, config, done, loopVars, script, log, quiet>>

\* if t.started.Load()
StartAtomicLoad(c) ==
    /\ pc[c] = "StartLoad"
    /\ IF started
         THEN Logged("already been started") /\ pc' = [pc EXCEPT ![c] = "idle"]
         ELSE UNCHANGED log /\ pc' = [pc EXCEPT ![c] = "StartSpawn"]
    /\ UNCHANGED <<tickerVars, mu, config, done, loopVars, ncalls, script, quiet>>

\* t.quit = make(chan bool, 1); t.started.Store(true); t.wg.Add(1); go t.run()
StartAtomicSpawn(c) ==
    /\ pc[c] = "StartSpawn"
    /\ pc' = [pc EXCEPT ![c] = "idle"]
    /\ quit' = [ch |-> quit.ch + 1, buf |-> 0]
    /\ started' = TRUE
    /\ wg' = wg + 1
    /\ lpc' = Append(lpc, "select")
    /\ hres' = Append(hres, "nil")
    /\ quiet' = FALSE
    /\ UNCHANGED <<mu, config, done, ncalls, script, ticks, fin, log, observed>>

Next36 ==
    \/ \E c \in Callers : CallStartAtomic(c) /\ UNCHANGED counterVars
    \/ \E c \in Callers : StartAtomicLoad(c) /\ UNCHANGED counterVars
    \/ \E c \in Callers : StartAtomicSpawn(c) /\ UNCHANGED counterVars
    \/ \E l \in Loops : runTick(l, Outcomes) /\ UNCHANGED counterVars
    \/ \E l \in Loops : executeHandler(l) /\ UNCHANGED counterVars

Spec36 == Init /\ [][Next36]_vars

\* C36 as stated: whatever Start calls race on the stopped ticker, one run
\* goroutine is spawned and one quit channel made.
C36_Orig ==
    Len(lpc) <= 1 /\ quit.ch <= 1

\* ---------------------------------------------------------------------
\* C37 as stated: a Vacuum(t) with t at or past a key's last access plus the
\* ttl leaves the key out of the map.
C37_Orig ==
    [][\A t \in 0..MaxTime : \A k \in Keys :
          (VacuumStep(t) /\ Has(items, k) /\ items[k].access + ttl <= t)
              => ~Has(items', k)]_vars

\* C38: every queue entry of a key that is in the map is scheduled no later
\* than the item's access time plus the ttl, so Vacuum's test
\* access <= expireAt - ttl is true of an entry exactly when the two are equal.
C38_Thm ==
    \A i \in 1..Len(expQueue) :
        LET e == expQueue[i]
        IN  Has(items, e.key) =>
                /\ e.expireAt <= items[e.key].access + ttl
                /\ (items[e.key].access <= e.expireAt - ttl)
                        <=> (e.expireAt = items[e.key].access + ttl)

\* After a Reset at a later time the key's entry is scheduled strictly
\* before the item's expiration, next to another key's exact entry.
C38_Witness ==
    /\ ret.op = "Reset" /\ Has(items, ret.key)
    /\ \E i \in 1..Len(expQueue) :
            /\ expQueue[i].key = ret.key
            /\ expQueue[i].expireAt < items[ret.key].access + ttl
    /\ \E i \in 1..Len(expQueue) :
            /\ expQueue[i].key # ret.key /\ Has(items, expQueue[i].key)
            /\ expQueue[i].expireAt = items[expQueue[i].key].access + ttl

\* C39 as stated: an Inc of a key whose ttl had elapsed, swept or not,
\* leaves the count at 1.
C39_Orig ==
    (ret.op = "Inc" /\ ~ret.live) => ValueOf(items, ret.key) = 1

\* C40: after every operation the queue is a min-heap on expireAt and the
\* entry at position 0 has the smallest expireAt of all.
C40_Thm ==
    /\ IsHeap(expQueue)
    /\ \A i \in 1..Len(expQueue) : expQueue[1].expireAt <= expQueue[i].expireAt

\* A Touch or Inc has raised the time of the entry that was the minimum, and
\* heap.Fix has moved it below the other key's entry.
C40_Witness ==
    /\ ret.op \in {"Touch", "Inc"}
    /\ Len(expQueue) >= 2
    /\ expQueue[1].key # ret.key
    /\ \E i \in 2..Len(expQueue) :
            /\ expQueue[i].key = ret.key
            /\ expQueue[i].expireAt = now + ttl
            /\ expQueue[i].expireAt > expQueue[1].expireAt
    /\ \A i \in 1..Len(expQueue) : expQueue[i].key = ret.key => i >= 2

====
